---- MODULE Spec2Model ----
(***************************************************************************)
(* A model of the colour-blindness correction programs of this repository: *)
(*   - ColorBlindnessCorrector (colourblind_correction.py): the mode        *)
(*     controller (set_mode), process_frame and the LMS daltonization;     *)
(*   - ColorCorrector.apply_correction (correction.py): the RGB-space      *)
(*     deuteranopia correction;                                            *)
(*   - main (main.py): the frame loop with detection every SKIP_FRAMES     *)
(*     frames, per-region clamping, correction, write-back and overlay.    *)
(*                                                                         *)
(* Numbers.  The code computes in IEEE floating point; the model computes  *)
(* in fixed point with six decimals for matrix coefficients (FixOne) and   *)
(* rounds every product down.  Pixel channels are integers 0..255.  A      *)
(* conversion to uint8 keeps the low eight bits of the truncated value.    *)
(*                                                                         *)
(* Strings.  A Python str is a sequence of one-character strings, so that  *)
(* case folding is an operation on characters.                             *)
(***************************************************************************)
EXTENDS Integers, Sequences, FiniteSets, TLC

VARIABLES
    current_mode,        \* ColorBlindnessCorrector.current_mode
    call,                \* the most recent call on the corrector / engine
    ret,                 \* what that call returned or raised
    printed,             \* what that call printed ("" when nothing)
    mode_before,         \* history: current_mode when that call started
    engine_ran,          \* history: that call ran the daltonization engine
    scenario,            \* history: progress of normal, protanopia, normal on one frame
    frame_count,         \* main: frame_count
    current_detections,  \* main: current_detections
    frame,               \* main: the frame buffer being processed
    pc,                  \* main: position in the loop
    idx,                 \* main: index of the region the for loop is at
    roi_box,             \* main: the clamped (x1, y1, x2, y2) of that region
    last_write,          \* history: per pixel, the latest write-back of a correction
    detected,            \* history: what detector.detect returned last
    detected_at,         \* history: the index of the frame it was called on
    captured,            \* history: the frame as cap.read() returned it
    app_pc,              \* run: position in the application loop
    app_frame,           \* run: frame, as self.cap.read() returned it
    processed_frame,     \* run: processed_frame
    display_frame,       \* run: display_frame, with the mode text drawn on it
    key,                 \* run: key, what cv2.waitKey(1) & 0xFF returned last
    frame_no,            \* history: how many frames run has read
    frame_mode,          \* history: current_mode as process_frame read it for this frame
    last_mode_key        \* history: the latest key among n, p, d, t (either case) so far

vars == <<current_mode, call, ret, printed, mode_before, engine_ran, scenario,
          frame_count, current_detections, frame, pc, idx,
          roi_box, last_write, detected, detected_at, captured,
          app_pc, app_frame, processed_frame, display_frame, key, frame_no,
          frame_mode, last_mode_key>>

corrector_vars == <<current_mode, call, ret, printed, mode_before, engine_ran,
                    scenario>>

main_vars == <<frame_count, current_detections, frame, pc, idx, roi_box,
               last_write, detected, detected_at, captured>>

app_vars == <<app_pc, app_frame, processed_frame, display_frame, key, frame_no,
              frame_mode, last_mode_key>>

(***************************************************************************)
(* Bounds of the model.                                                    *)
(***************************************************************************)
LevelSteps == 2      \* engine inputs: channel values 0, 255/LevelSteps, ..., 255
FrameLevels == 1     \* process_frame inputs: channel values 0, 255/FrameLevels, ..., 255
MaxFrames == 6       \* frames the camera delivers before the stream ends
MaxDet == 2          \* longest detection list the detector returns
FrameW == 3          \* width of the camera frames of main
FrameH == 2          \* height of the camera frames of main
MaxAppFrames == 3    \* frames the camera delivers to run before the stream ends

(***************************************************************************)
(* Strings.                                                                *)
(***************************************************************************)
UpperLetters == <<"A","B","C","D","E","F","G","H","I","J","K","L","M",
                  "N","O","P","Q","R","S","T","U","V","W","X","Y","Z">>
LowerLetters == <<"a","b","c","d","e","f","g","h","i","j","k","l","m",
                  "n","o","p","q","r","s","t","u","v","w","x","y","z">>

\* str.lower() on one character.
LowerChar(c) ==
    IF \E i \in 1..Len(UpperLetters) : UpperLetters[i] = c
    THEN LowerLetters[CHOOSE i \in 1..Len(UpperLetters) : UpperLetters[i] = c]
    ELSE c

\* str.upper() on one character.
UpperChar(c) ==
    IF \E i \in 1..Len(LowerLetters) : LowerLetters[i] = c
    THEN UpperLetters[CHOOSE i \in 1..Len(LowerLetters) : LowerLetters[i] = c]
    ELSE c

Lower(s) == [i \in 1..Len(s) |-> LowerChar(s[i])]
Upper(s) == [i \in 1..Len(s) |-> UpperChar(s[i])]

\* "Xyz...": the first character in upper case.
Capitalized(s) == [i \in 1..Len(s) |-> IF i = 1 THEN UpperChar(s[i]) ELSE s[i]]

normal == <<"n","o","r","m","a","l">>
protanopia == <<"p","r","o","t","a","n","o","p","i","a">>
deuteranopia == <<"d","e","u","t","e","r","a","n","o","p","i","a">>
tritanopia == <<"t","r","i","t","a","n","o","p","i","a">>
off == <<"o","f","f">>

\* set_mode: valid_modes, in list order.
valid_modes == <<normal, protanopia, deuteranopia, tritanopia>>

\* process_frame: the modes that run daltonize.
daltonize_modes == <<protanopia, deuteranopia, tritanopia>>

InList(x, list) == \E i \in 1..Len(list) : list[i] = x

(***************************************************************************)
(* Fixed-point arithmetic.                                                 *)
(***************************************************************************)
FixBase == 10^3
FixOne == FixBase * FixBase    \* the fixed-point 1.0 of matrix coefficients

\* floor(a * c / FixOne), computed limb by limb so that no intermediate
\* product leaves the 32-bit integers.
FixMul(a, c) ==
    LET ah == a \div FixBase
        al == a % FixBase
        ch == c \div FixBase
        cl == c % FixBase
    IN  ah * ch + ((ah * cl + al * ch + ((al * cl) \div FixBase)) \div FixBase)

\* The product of a 3x3 matrix and a 3-vector.
MatVec(m, v) ==
    [i \in 1..3 |-> FixMul(m[i][1], v[1]) + FixMul(m[i][2], v[2]) + FixMul(m[i][3], v[3])]

VecAdd(u, v) == [i \in 1..3 |-> u[i] + v[i]]
VecSub(u, v) == [i \in 1..3 |-> u[i] - v[i]]

\* ndarray.astype(np.uint8) of a non-negative fixed-point value of scale s:
\* truncation, then the low eight bits.
AsUint8(x, s) == (x \div s) % 256

(***************************************************************************)
(* ColorBlindnessCorrector.__init__: the matrices.                         *)
(***************************************************************************)
rgb2lms == << <<17882400, 43516100, 4119350>>,
              <<3455650, 27155400, 3867140>>,
              <<29957, 184309, 1467090>> >>

\* np.linalg.inv(rgb2lms), to six decimals.
lms2rgb == << <<80944, -130504, 116721>>,
              <<-10249, 54019, -113615>>,
              <<-365, -4122, 693511>> >>

protanopia_sim == << <<0, 2023440, -2525810>>,
                     <<0, 1000000, 0>>,
                     <<0, 0, 1000000>> >>

deuteranopia_sim == << <<1000000, 0, 0>>,
                       <<494207, 0, 1248270>>,
                       <<0, 0, 1000000>> >>

tritanopia_sim == << <<1000000, 0, 0>>,
                     <<0, 1000000, 0>>,
                     <<-395913, 801109, 0>> >>

(***************************************************************************)
(* Images and results.  An image is a numpy array: its shape and its       *)
(* elements in row-major order.  A call returns a value or raises.         *)
(***************************************************************************)
Ok(v) == [status |-> "ok", value |-> v]
Raise(e) == [status |-> e, value |-> <<>>]

Product(shape) ==
    IF Len(shape) = 3 THEN shape[1] * shape[2] * shape[3]
    ELSE IF Len(shape) = 2 THEN shape[1] * shape[2]
    ELSE 0

\* ndarray.reshape(-1, 3): the rows of three of the elements.
ReshapeRows(data) == [k \in 1..(Len(data) \div 3) |-> <<data[3*k - 2], data[3*k - 1], data[3*k]>>]

\* The elements of an (n, 3) array in row-major order.
Flatten(rows) == [i \in 1..(3 * Len(rows)) |-> rows[((i - 1) \div 3) + 1][((i - 1) % 3) + 1]]

\* rgb_image.astype(np.float32) / 255.0 on one row.
Normalize(row) == [i \in 1..3 |-> (row[i] * FixOne) \div 255]

\* rgb_to_lms: the LMS rows of the image, or the ValueError of the unpacking
\* of the shape (line 59), of reshape(-1, 3) (line 60) or of
\* reshape(h, w, 3) (line 65).
rgb_to_lms(rgb_image) ==
    IF Len(rgb_image.shape) # 3 THEN Raise("ValueError")
    ELSE IF Len(rgb_image.data) % 3 # 0 THEN Raise("ValueError")
    ELSE IF Len(rgb_image.data) # rgb_image.shape[1] * rgb_image.shape[2] * 3
         THEN Raise("ValueError")
    ELSE Ok([shape |-> <<rgb_image.shape[1], rgb_image.shape[2], 3>>,
             rows |-> [k \in 1..(Len(rgb_image.data) \div 3) |->
                          MatVec(rgb2lms, Normalize(ReshapeRows(rgb_image.data)[k]))]])

\* np.clip(rgb, 0, 1) on one component.
NoClip01(x) == x
Clip01(x) == IF x < 0 THEN 0 ELSE IF x > FixOne THEN FixOne ELSE x

\* lms_to_rgb on one row: the matrix, the clip, the scaling and the cast.
lms_to_rgb_row(lms) ==
    [i \in 1..3 |-> AsUint8(Clip01(MatVec(lms2rgb, lms)[i]) * 255, FixOne)]

\* lms_to_rgb on one row before the clip and the cast: rgb * 255, truncated.
lms_to_rgb_raw(lms) == [i \in 1..3 |-> (MatVec(lms2rgb, lms)[i] * 255) \div FixOne]

lms_to_rgb(lms_image) ==
    [shape |-> lms_image.shape,
     data |-> Flatten([k \in 1..Len(lms_image.rows) |-> lms_to_rgb_row(lms_image.rows[k])])]

\* simulate_colorblindness: the simulation matrix of the type; an unknown
\* type returns the image as it is.
HasSimMatrix(cb_type) == cb_type \in {protanopia, deuteranopia, tritanopia}

sim_matrix(cb_type) ==
    IF cb_type = protanopia THEN protanopia_sim
    ELSE IF cb_type = deuteranopia THEN deuteranopia_sim
    ELSE tritanopia_sim

simulate_colorblindness(lms_image, cb_type) ==
    IF HasSimMatrix(cb_type)
    THEN [shape |-> lms_image.shape,
          rows |-> [k \in 1..Len(lms_image.rows) |->
                       MatVec(sim_matrix(cb_type), lms_image.rows[k])]]
    ELSE lms_image

\* daltonize: the error correction matrix of the type.
error_correction(cb_type) ==
    IF cb_type = protanopia
    THEN << <<0, 0, 0>>, <<700000, 1000000, 0>>, <<700000, 0, 1000000>> >>
    ELSE IF cb_type = deuteranopia
    THEN << <<1000000, 700000, 0>>, <<0, 0, 0>>, <<0, 700000, 1000000>> >>
    ELSE << <<1000000, 0, 700000>>, <<0, 1000000, 700000>>, <<0, 0, 0>> >>

\* daltonize, lines 145-152: lms_original + lms_error @ error_correction.T,
\* row by row.
lms_corrected(lms_original, lms_simulated, cb_type) ==
    [shape |-> lms_original.shape,
     rows |-> [k \in 1..Len(lms_original.rows) |->
                  VecAdd(lms_original.rows[k],
                         MatVec(error_correction(cb_type),
                                VecSub(lms_original.rows[k], lms_simulated.rows[k])))]]

\* daltonize with the return of the input for an unknown type left out: the
\* image goes through the whole conversion whatever the type.
daltonize_always_converts(rgb_image, cb_type) ==
    LET lms == rgb_to_lms(rgb_image) IN
    IF lms.status # "ok" THEN lms
    ELSE IF HasSimMatrix(cb_type)
    THEN Ok(lms_to_rgb(lms_corrected(lms.value,
                                     simulate_colorblindness(lms.value, cb_type), cb_type)))
    ELSE Ok(lms_to_rgb(lms.value))

\* daltonize: rgb_to_lms runs first and may raise; an unknown type then
\* returns rgb_image itself.
daltonize(rgb_image, cb_type) ==
    LET lms == rgb_to_lms(rgb_image) IN
    IF lms.status # "ok" THEN lms
    ELSE IF HasSimMatrix(cb_type)
    THEN Ok(lms_to_rgb(lms_corrected(lms.value,
                                     simulate_colorblindness(lms.value, cb_type), cb_type)))
    ELSE Ok(rgb_image)

(***************************************************************************)
(* ColorCorrector (correction.py): the deuteranopia correction in RGB      *)
(* space, on channel values 0..255 held with four decimals.                *)
(***************************************************************************)
ValScale == 10^4

lms_matrix == << <<17882400, 43516100, 4119350>>,
                 <<3455650, 27155400, 3867140>>,
                 <<29957, 184309, 1467090>> >>

\* np.linalg.inv(lms_matrix), to six decimals.
rgb_matrix_inv == << <<80944, -130504, 116721>>,
                     <<-10249, 54019, -113615>>,
                     <<-365, -4122, 693511>> >>

sim_deuteranopia == << <<1000000, 0, 0>>,
                       <<494207, 0, 1248270>>,
                       <<0, 0, 1000000>> >>

err_mod == << <<0, 0, 0>>,
              <<700000, 1000000, 0>>,
              <<700000, 0, 1000000>> >>

\* cv2.cvtColor(..., COLOR_BGR2RGB) and COLOR_RGB2BGR on one pixel.
SwapRB(px) == <<px[3], px[2], px[1]>>

\* np.clip(dtpn, 0, 255) on one component.
NoClip255(x) == x
Clip255(x) == IF x < 0 THEN 0 ELSE IF x > 255 * ValScale THEN 255 * ValScale ELSE x

\* apply_correction, lines 38-75, on one BGR pixel: dtpn before the clip.
dtpn_of(bgr) ==
    LET img_flat == [i \in 1..3 |-> SwapRB(bgr)[i] * ValScale]
        lms == MatVec(lms_matrix, img_flat)
        lms_sim == MatVec(sim_deuteranopia, lms)
        rgb_sim == MatVec(rgb_matrix_inv, lms_sim)
        error == VecSub(img_flat, rgb_sim)
        correction == MatVec(err_mod, error)
    IN  VecAdd(img_flat, correction)

\* apply_correction on one BGR pixel.
apply_correction_pixel(bgr) ==
    SwapRB([i \in 1..3 |-> AsUint8(Clip255(dtpn_of(bgr)[i]), ValScale)])

\* apply_correction on an image of shape (h, w, 3).
apply_correction(image) ==
    [shape |-> image.shape,
     data |-> Flatten([k \in 1..(Len(image.data) \div 3) |->
                          apply_correction_pixel(ReshapeRows(image.data)[k])])]

(***************************************************************************)
(* The inputs tried.                                                       *)
(***************************************************************************)
Levels(n) == {(255 * k) \div n : k \in 0..n}

\* The images of one pixel with channels in Levels(n).
PixelImages(n) ==
    {[shape |-> <<1, 1, 3>>, data |-> <<a, b, c>>] : a \in Levels(n), b \in Levels(n),
                                                    c \in Levels(n)}

\* Images of two pixels, each black, white or a primary colour.
PairImages ==
    LET Px == {<<0, 0, 0>>, <<255, 255, 255>>, <<255, 0, 0>>, <<0, 255, 0>>, <<0, 0, 255>>}
    IN  {[shape |-> <<1, 2, 3>>, data |-> p \o q] : p \in Px, q \in Px}

Zeros(n) == [i \in 1..n |-> 0]

\* Frames with no pixel, with a channel count other than 3, or with two
\* dimensions only.
MalformedFrames ==
    {[shape |-> s, data |-> Zeros(Product(s))] :
        s \in {<<0, 0, 3>>, <<0, 2, 3>>, <<2, 0, 3>>, <<1, 1, 4>>, <<1, 3, 4>>,
               <<1, 1, 1>>, <<1, 3, 1>>, <<1, 1>>}}

IsMalformed(f) ==
    \/ Len(f.shape) # 3
    \/ f.shape[1] = 0
    \/ f.shape[2] = 0
    \/ f.shape[3] # 3

EngineImages == PixelImages(LevelSteps) \cup PairImages \cup {[shape |-> <<0, 0, 3>>, data |-> <<>>]}

Frames == PixelImages(FrameLevels) \cup MalformedFrames

blue == <<"b","l","u","e">>

\* The names tried on set_mode and daltonize: the recognized ones, "off",
\* an unknown word, each also in upper case and capitalized, and "".
ModeNames ==
    LET Base == {normal, protanopia, deuteranopia, tritanopia, off, blue}
    IN  Base \cup {Upper(n) : n \in Base} \cup {Capitalized(n) : n \in Base} \cup {<<>>}

(***************************************************************************)
(* ColorBlindnessCorrector: set_mode and process_frame.                    *)
(***************************************************************************)
NoCall == [op |-> "none", arg |-> <<>>, cb_type |-> <<>>]
NoPrint == [text |-> "", arg |-> <<>>]
NoScenario == [stage |-> 0, frame |-> <<>>, first |-> <<>>, second |-> <<>>]

\* The scenario history: a process_frame of frame f in mode normal (stage 1),
\* then one of the same frame in mode protanopia (stage 2), then one of the
\* same frame in mode normal again (stage 3); first and second are what the
\* two normal-mode calls returned.
ScenarioAfter(sc, mode, f, result) ==
    IF sc.stage = 0 /\ mode = normal
    THEN [stage |-> 1, frame |-> f, first |-> result, second |-> <<>>]
    ELSE IF sc.stage = 1 /\ mode = protanopia /\ sc.frame = f
    THEN [sc EXCEPT !.stage = 2]
    ELSE IF sc.stage = 2 /\ mode = normal /\ sc.frame = f
    THEN [sc EXCEPT !.stage = 3, !.second = result]
    ELSE sc

\* set_mode, line 171: the membership test, with no case folding.
IsValidModeFolded(mode) == InList(Lower(mode), valid_modes)
IsValidMode(mode) == InList(mode, valid_modes)

\* set_mode with the assignment made whatever the membership test says.
ModeAfterSetUnchecked(old, mode) == mode

\* set_mode, lines 171-172: the mode after the call.
ModeAfterSet(old, mode) == IF IsValidMode(mode) THEN mode ELSE old

\* process_frame, lines 161-166: whether the mode runs daltonize.
RunsEngineAlways(mode) == TRUE
RunsEngine(mode) == mode # normal /\ InList(mode, daltonize_modes)

\* process_frame: the frame itself, or what daltonize returns or raises.
process_frame_result(mode, f) ==
    IF RunsEngine(mode) THEN daltonize(f, mode) ELSE Ok(f)

set_mode(mode) ==
    /\ current_mode' = ModeAfterSet(current_mode, mode)
    /\ printed' = IF IsValidMode(mode)
                  THEN [text |-> "Mode changed to: ", arg |-> Upper(mode)]
                  ELSE [text |-> "Invalid mode: ", arg |-> mode]
    /\ call' = [op |-> "set_mode", arg |-> mode, cb_type |-> <<>>]
    /\ ret' = Ok("None")
    /\ mode_before' = current_mode
    /\ engine_ran' = FALSE
    /\ UNCHANGED scenario
    /\ UNCHANGED main_vars
    /\ UNCHANGED app_vars

process_frame(f) ==
    /\ call' = [op |-> "process_frame", arg |-> f, cb_type |-> <<>>]
    /\ ret' = process_frame_result(current_mode, f)
    /\ engine_ran' = RunsEngine(current_mode)
    /\ printed' = NoPrint
    /\ mode_before' = current_mode
    /\ scenario' = ScenarioAfter(scenario, current_mode, f, ret')
    /\ UNCHANGED current_mode
    /\ UNCHANGED main_vars
    /\ UNCHANGED app_vars

\* Direct calls of the two correction functions: the call is made with the
\* arguments drawn, and returns.
Pending == [status |-> "pending", value |-> <<>>]

call_daltonize ==
    /\ call.op = "daltonize"
    /\ ret = Pending
    /\ ret' = daltonize(call.arg, call.cb_type)
    /\ UNCHANGED call
    /\ engine_ran' = TRUE
    /\ printed' = NoPrint
    /\ mode_before' = current_mode
    /\ UNCHANGED <<current_mode, scenario>>
    /\ UNCHANGED main_vars
    /\ UNCHANGED app_vars

call_apply_correction ==
    /\ call.op = "apply_correction"
    /\ ret = Pending
    /\ ret' = Ok(apply_correction(call.arg))
    /\ UNCHANGED call
    /\ engine_ran' = TRUE
    /\ printed' = NoPrint
    /\ mode_before' = current_mode
    /\ UNCHANGED <<current_mode, scenario>>
    /\ UNCHANGED main_vars
    /\ UNCHANGED app_vars

InitCorrector ==
    /\ current_mode = normal
    /\ call = NoCall
    /\ ret = Ok("None")
    /\ printed = NoPrint
    /\ mode_before = normal
    /\ engine_ran = FALSE
    /\ scenario = NoScenario

InitMain ==
    /\ frame_count = 0
    /\ current_detections = <<>>
    /\ frame = <<>>
    /\ pc = "read"
    /\ idx = 1
    /\ roi_box = <<0, 0, 0, 0>>
    /\ last_write = <<>>
    /\ detected = <<>>
    /\ detected_at = -1
    /\ captured = <<>>

NoKey == "none"
NoFrame == [shape |-> <<0, 0, 3>>, data |-> <<>>]
NoDisplay == [image |-> NoFrame, mode_text |-> <<>>]

InitApp ==
    /\ app_pc = "read"
    /\ app_frame = NoFrame
    /\ processed_frame = NoFrame
    /\ display_frame = NoDisplay
    /\ key = NoKey
    /\ frame_no = 0
    /\ frame_mode = normal
    /\ last_mode_key = NoKey

Init == InitCorrector /\ InitMain /\ InitApp

\* The corrector object: set_mode and process_frame in any order.
Next ==
    \/ \E mode \in ModeNames : set_mode(mode)
    \/ \E f \in Frames : process_frame(f)

Spec == Init /\ [][Next]_vars

\* The correction functions on their own.
EngineCalls ==
    {[op |-> "daltonize", arg |-> img, cb_type |-> t] : img \in EngineImages, t \in ModeNames}
    \cup {[op |-> "apply_correction", arg |-> img, cb_type |-> <<>>] :
              img \in EngineImages \ MalformedFrames}

InitEngine ==
    /\ current_mode = normal
    /\ call \in EngineCalls
    /\ ret = Pending
    /\ printed = NoPrint
    /\ mode_before = normal
    /\ engine_ran = FALSE
    /\ scenario = NoScenario
    /\ InitMain
    /\ InitApp

NextEngine ==
    \/ call_daltonize
    \/ call_apply_correction

SpecEngine == InitEngine /\ [][NextEngine]_vars

(***************************************************************************)
(* Properties of the mode controller and of process_frame (under Spec).    *)
(***************************************************************************)

\* C1: a set_mode call with a name that is not in the list of recognized
\* names leaves current_mode as it was when the call started, returns
\* normally, and prints the "Invalid mode" warning with the name.
C1_InvalidNameKeepsMode ==
    (call.op = "set_mode" /\ ~InList(call.arg, valid_modes)) =>
        /\ current_mode = mode_before
        /\ ret.status = "ok"
        /\ printed = [text |-> "Invalid mode: ", arg |-> call.arg]

\* C1 witness: "off" was given while protanopia was active, and protanopia
\* is still active.
C1_Witness ==
    /\ call.op = "set_mode"
    /\ call.arg = off
    /\ mode_before = protanopia
    /\ current_mode = protanopia

\* C4: a process_frame call made in mode normal returns its input frame
\* itself and does not run the daltonization engine; and when one frame is
\* processed in mode normal, then protanopia, then normal, the two
\* normal-mode results are the same and are the frame.
C4_NormalReturnsInput ==
    /\ (call.op = "process_frame" /\ mode_before = normal) =>
           (ret = Ok(call.arg) /\ ~engine_ran)
    /\ scenario.stage = 3 =>
           (scenario.first = scenario.second /\ scenario.second = Ok(scenario.frame))

\* C4 witness: the sequence normal, protanopia, normal has been run on a
\* frame of one white pixel.
C4_Witness ==
    /\ scenario.stage = 3
    /\ scenario.frame = [shape |-> <<1, 1, 3>>, data |-> <<255, 255, 255>>]
    /\ call.op = "process_frame"
    /\ mode_before = normal

\* The state of the controller that a name stands for in the specification's
\* naming, where "off" names the state the code calls normal.
StateOfName(name) == IF name = off THEN normal ELSE name

\* C6 as stated: set_mode folds case; a name that is "off", "protanopia",
\* "deuteranopia" or "tritanopia" in any mix of cases moves the controller to
\* that state, and every other string is rejected.
C6_CaseInsensitiveOffNames ==
    call.op = "set_mode" =>
        IF Lower(call.arg) \in {off, protanopia, deuteranopia, tritanopia}
        THEN current_mode = StateOfName(Lower(call.arg))
        ELSE current_mode = mode_before /\ printed.text = "Invalid mode: "

\* C6 amended: set_mode accepts exactly the names "normal", "protanopia",
\* "deuteranopia" and "tritanopia" written in lower case and moves the
\* controller to the state of that name; every other string, "off" and any
\* spelling with an upper-case letter included, is rejected and the mode kept.
C6_ExactLowerCaseNames ==
    call.op = "set_mode" =>
        IF call.arg \in {normal, protanopia, deuteranopia, tritanopia}
        THEN current_mode = call.arg /\ printed.text = "Mode changed to: "
        ELSE current_mode = mode_before /\ printed.text = "Invalid mode: "

\* C6 witness: "PROTANOPIA" was given in mode normal and rejected.
C6_Witness ==
    /\ call.op = "set_mode"
    /\ call.arg = Upper(protanopia)
    /\ mode_before = normal
    /\ current_mode = normal
    /\ printed.text = "Invalid mode: "

\* C8 as stated: process_frame of a malformed frame (no pixel, or a channel
\* count other than 3) fails in every mode and returns no frame.
C8_MalformedFrameFails ==
    (call.op = "process_frame" /\ IsMalformed(call.arg)) =>
        (ret.status # "ok" /\ ret.value = <<>>)

(***************************************************************************)
(* Properties of the correction functions (under SpecEngine).              *)
(***************************************************************************)
Saturate(x) == IF x < 0 THEN 0 ELSE IF x > 255 THEN 255 ELSE x

\* What daltonize computes for a correcting type before the clip and the
\* cast to uint8: rgb * 255 of every component, truncated.
DaltonizeUnclipped(img, cb_type) ==
    LET lms == rgb_to_lms(img).value
        corrected == lms_corrected(lms, simulate_colorblindness(lms, cb_type), cb_type)
    IN  Flatten([k \in 1..Len(corrected.rows) |-> lms_to_rgb_raw(corrected.rows[k])])

\* What apply_correction computes before the clip and the cast, truncated.
ApplyCorrectionUnclipped(img) ==
    Flatten([k \in 1..(Len(img.data) \div 3) |->
                SwapRB([i \in 1..3 |-> dtpn_of(ReshapeRows(img.data)[k])[i] \div ValScale])])

\* C5: daltonize with a type other than protanopia, deuteranopia and
\* tritanopia returns exactly its input image.
C5_UnknownTypeReturnsInput ==
    (call.op = "daltonize" /\ ret.status # "pending"
        /\ call.cb_type \notin {protanopia, deuteranopia, tritanopia}) =>
        ret = Ok(call.arg)

\* C5 witness: daltonize returned a white pixel given with type "normal".
C5_Witness ==
    /\ call.op = "daltonize"
    /\ call.cb_type = normal
    /\ call.arg = [shape |-> <<1, 1, 3>>, data |-> <<255, 255, 255>>]
    /\ ret = Ok(call.arg)

\* C9: every channel of the output of daltonize (for the three types) and of
\* apply_correction lies in 0..255 and is the saturated value of what was
\* computed: below 0 gives 0, above 255 gives 255, nothing wraps around.
C9_OutputSaturated ==
    /\ (call.op = "daltonize" /\ ret.status # "pending"
           /\ call.cb_type \in {protanopia, deuteranopia, tritanopia}) =>
           /\ ret.status = "ok"
           /\ Len(ret.value.data) = Len(call.arg.data)
           /\ \A i \in 1..Len(ret.value.data) :
                  /\ ret.value.data[i] \in 0..255
                  /\ ret.value.data[i] =
                         Saturate(DaltonizeUnclipped(call.arg, call.cb_type)[i])
    /\ (call.op = "apply_correction" /\ ret.status # "pending") =>
           /\ Len(ret.value.data) = Len(call.arg.data)
           /\ \A i \in 1..Len(ret.value.data) :
                  /\ ret.value.data[i] \in 0..255
                  /\ ret.value.data[i] = Saturate(ApplyCorrectionUnclipped(call.arg)[i])

\* C9 witness: a daltonize call returned whose computed value was above the
\* range in one channel and below it in another.
C9_Witness ==
    /\ call.op = "daltonize"
    /\ ret.status # "pending"
    /\ call.cb_type \in {protanopia, deuteranopia, tritanopia}
    /\ \E i \in 1..Len(call.arg.data) : DaltonizeUnclipped(call.arg, call.cb_type)[i] > 255
    /\ \E i \in 1..Len(call.arg.data) : DaltonizeUnclipped(call.arg, call.cb_type)[i] < 0

(***************************************************************************)
(* main (main.py): the frame loop.                                         *)
(***************************************************************************)
SKIP_FRAMES == 5

\* ObjectDetector.target_classes.
target_classes == {9, 11}

Max(a, b) == IF a > b THEN a ELSE b
Min(a, b) == IF a < b THEN a ELSE b

\* The pixels of a frame, <<x, y>> with x the column and y the row.
Pixels == (0..(FrameW - 1)) \X (0..(FrameH - 1))

\* The frames the camera delivers: of one colour (BGR) each.
CameraFrames == {[p \in Pixels |-> c] : c \in {<<10, 200, 30>>, <<255, 255, 255>>}}

\* The detections the detector reports, (x1, y1, x2, y2, cls_id, conf) with
\* conf in percent.  The boxes span, in x, the left of the frame, all of it,
\* its right part, or the right of the frame, and in y the part above the
\* frame or all of it; class 9 for the boxes above the frame, 11 for the rest.
XSpans == {<<-2, -1>>, <<-2, FrameW + 2>>, <<1, FrameW + 2>>, <<FrameW + 1, FrameW + 2>>}
YSpans == {<<-2, -1>>, <<-2, FrameH + 2>>}

Detections ==
    {<<xs[1], ys[1], xs[2], ys[2], IF ys[2] < 0 THEN 9 ELSE 11, IF ys[2] < 0 THEN 55 ELSE 90>> :
        xs \in XSpans, ys \in YSpans}

\* The lists of at most n detections.
DetectionLists(n) == UNION {[1..k -> Detections] : k \in 0..n}

\* Line 40, with the test made on the count after its increment.
ShouldDetectAfterIncrement(count) == (count + 1) % SKIP_FRAMES = 0
\* Line 40: whether detection runs on the frame with this count.
ShouldDetect(count) == count % SKIP_FRAMES = 0

\* Line 46, with the list walked from its end.
RegionAtReversed(dets, i) == dets[Len(dets) + 1 - i]
\* Line 46: the tuple the for loop unpacks in its i-th round.
RegionAt(dets, i) == dets[i]

\* Lines 49-50: max(0, x1), max(0, y1), min(w, x2), min(h, y2).
Clamp(det, w, h) == <<Max(0, det[1]), Max(0, det[2]), Min(w, det[3]), Min(h, det[4])>>

\* Lines 49-50, with the clamped coordinates stored back into the list.
DetectionsClampedInPlace(dets, i, box) ==
    [dets EXCEPT ![i] = <<box[1], box[2], box[3], box[4], dets[i][5], dets[i][6]>>]
\* Lines 46-50: the loop unpacks the tuple into locals and the clamping
\* rebinds the locals; the list is what it was.
DetectionsAfterRegion(dets, i, box) == dets

\* A bound of a Python slice on an axis of length n: a negative bound counts
\* from the end, and the result is cut to 0..n.
SliceBound(b, n) == IF b < 0 THEN Max(b + n, 0) ELSE Min(b, n)

\* The indices that the slice [start:stop] selects on an axis of length n.
SliceIndices(start, stop, n) ==
    {i \in 0..(n - 1) : SliceBound(start, n) <= i /\ i < SliceBound(stop, n)}

\* Line 52: the pixels of frame[y1:y2, x1:x2].
RoiPixels(box, w, h) == SliceIndices(box[1], box[3], w) \X SliceIndices(box[2], box[4], h)

\* Line 60: pixels that cv2.rectangle paints for the outline from (x1, y1) to
\* (x2, y2): those of the frame on the four edge lines.  (The stroke is two
\* pixels thick; the model paints its centre line.)
OutlinePixels(box) ==
    {p \in Pixels :
        /\ Min(box[1], box[3]) <= p[1] /\ p[1] <= Max(box[1], box[3])
        /\ Min(box[2], box[4]) <= p[2] /\ p[2] <= Max(box[2], box[4])
        /\ (p[1] \in {box[1], box[3]} \/ p[2] \in {box[2], box[4]})}

\* Line 61: pixels that cv2.putText can paint: the glyphs stand on the
\* baseline y1 - 10 and start at column x1.
LabelPixels(box) == {p \in Pixels : p[1] >= box[1] /\ p[2] <= box[2] - 10}

\* The colour (0, 255, 0) of the outline and the label.
Green == <<0, 255, 0>>

NoWrite == [by |-> 0, from |-> <<>>, value |-> <<>>]

\* cap.read() delivers a frame; detection runs on it every SKIP_FRAMES
\* frames; the count is incremented; the for loop starts.
ReadFrame ==
    /\ pc = "read"
    /\ frame_count < MaxFrames
    /\ \E f \in CameraFrames :
          /\ frame' = f
          /\ captured' = f
    /\ IF ShouldDetect(frame_count)
       THEN /\ \E dets \in DetectionLists(MaxDet) :
                  /\ current_detections' = dets
                  /\ detected' = dets
            /\ detected_at' = frame_count
       ELSE UNCHANGED <<current_detections, detected, detected_at>>
    /\ frame_count' = frame_count + 1
    /\ idx' = 1
    /\ last_write' = [p \in Pixels |-> NoWrite]
    /\ pc' = "for"
    /\ UNCHANGED roi_box
    /\ UNCHANGED corrector_vars
    /\ UNCHANGED app_vars

\* cap.read() returns ret = False: the loop is left.
CameraEnds ==
    /\ pc = "read"
    /\ pc' = "done"
    /\ UNCHANGED <<frame_count, current_detections, frame, idx, roi_box, last_write,
                   detected, detected_at, captured>>
    /\ UNCHANGED corrector_vars
    /\ UNCHANGED app_vars

\* One round of the for loop whose roi has pixels: the roi is corrected and
\* written back into the frame.
CorrectRegion ==
    /\ pc = "for"
    /\ idx <= Len(current_detections)
    /\ LET box == Clamp(RegionAt(current_detections, idx), FrameW, FrameH)
           roi == RoiPixels(box, FrameW, FrameH)
           corrected_roi == [p \in roi |-> apply_correction_pixel(frame[p])]
       IN  /\ roi # {}
           /\ roi_box' = box
           /\ frame' = [p \in Pixels |-> IF p \in roi THEN corrected_roi[p] ELSE frame[p]]
           /\ last_write' = [p \in Pixels |->
                                IF p \in roi
                                THEN [by |-> idx, from |-> frame[p], value |-> corrected_roi[p]]
                                ELSE last_write[p]]
           /\ current_detections' = DetectionsAfterRegion(current_detections, idx, box)
    /\ pc' = "draw"
    /\ UNCHANGED <<frame_count, idx, detected, detected_at, captured>>
    /\ UNCHANGED corrector_vars
    /\ UNCHANGED app_vars

\* One round of the for loop whose roi is empty: nothing is corrected or
\* drawn.
SkipRegion ==
    /\ pc = "for"
    /\ idx <= Len(current_detections)
    /\ LET box == Clamp(RegionAt(current_detections, idx), FrameW, FrameH)
       IN  /\ RoiPixels(box, FrameW, FrameH) = {}
           /\ roi_box' = box
           /\ current_detections' = DetectionsAfterRegion(current_detections, idx, box)
    /\ idx' = idx + 1
    /\ UNCHANGED <<frame_count, frame, pc, last_write, detected, detected_at, captured>>
    /\ UNCHANGED corrector_vars
    /\ UNCHANGED app_vars

\* Lines 58-61: the outline and the label of the region are drawn into the
\* frame; the loop goes on to the next region.
DrawUI ==
    /\ pc = "draw"
    /\ frame' = [p \in Pixels |->
                    IF p \in OutlinePixels(roi_box) \cup LabelPixels(roi_box)
                    THEN Green ELSE frame[p]]
    /\ idx' = idx + 1
    /\ pc' = "for"
    /\ UNCHANGED <<frame_count, current_detections, roi_box, last_write, detected,
                   detected_at, captured>>
    /\ UNCHANGED corrector_vars
    /\ UNCHANGED app_vars

\* The for loop is over: the frame is shown.
ShowFrame ==
    /\ pc = "for"
    /\ idx > Len(current_detections)
    /\ pc' = "key"
    /\ UNCHANGED <<frame_count, current_detections, frame, idx, roi_box, last_write,
                   detected, detected_at, captured>>
    /\ UNCHANGED corrector_vars
    /\ UNCHANGED app_vars

\* cv2.waitKey: 'q' leaves the loop, anything else goes on to the next frame.
WaitKey(quit) ==
    /\ pc = "key"
    /\ pc' = IF quit THEN "done" ELSE "read"
    /\ UNCHANGED <<frame_count, current_detections, frame, idx, roi_box, last_write,
                   detected, detected_at, captured>>
    /\ UNCHANGED corrector_vars
    /\ UNCHANGED app_vars

NextMain ==
    \/ ReadFrame
    \/ CameraEnds
    \/ CorrectRegion
    \/ SkipRegion
    \/ DrawUI
    \/ ShowFrame
    \/ \E quit \in BOOLEAN : WaitKey(quit)

SpecMain == Init /\ [][NextMain]_vars

(***************************************************************************)
(* Properties of the frame loop (under SpecMain).                          *)
(***************************************************************************)

\* The roi of the j-th detection of the list, as the loop slices it.
RoiOf(dets, j) == RoiPixels(Clamp(dets[j], FrameW, FrameH), FrameW, FrameH)

\* The number of regions of the list that the for loop has corrected or
\* skipped so far in the current frame.
Handled == IF pc = "draw" THEN idx ELSE IF pc = "for" THEN idx - 1 ELSE Len(current_detections)

\* The handled regions whose roi holds pixel p.
Covering(p) == {j \in 1..Handled : p \in RoiOf(current_detections, j)}

MaxOf(S) == CHOOSE m \in S : \A k \in S : k <= m

\* C2: a step that reads a frame replaces the detection list exactly when the
\* index of the frame is a multiple of SKIP_FRAMES (frame 0 included), by
\* what the detector returned on that frame; on every other frame, and in
\* every other step, the list stays the one of the previous frame.
C2_DetectionCadence ==
    [][/\ (pc = "read" /\ pc' = "for") =>
              IF frame_count % SKIP_FRAMES = 0
              THEN detected_at' = frame_count /\ current_detections' = detected'
              ELSE /\ current_detections' = current_detections
                   /\ detected_at' = detected_at
                   /\ detected' = detected
       /\ pc # "read" => current_detections' = current_detections]_vars

\* C2 witness: frames 0 to SKIP_FRAMES have been read, and the list in use
\* is the one detected on frame SKIP_FRAMES.
C2_Witness ==
    /\ pc = "for"
    /\ frame_count = SKIP_FRAMES + 1
    /\ detected_at = SKIP_FRAMES
    /\ Len(current_detections) = 2
    /\ current_detections = detected

\* A detection that has no pixel in common with the frame.
FullyOutside(det, w, h) ==
    \/ det[3] <= 0
    \/ det[4] <= 0
    \/ det[1] >= w
    \/ det[2] >= h
    \/ det[1] >= det[3]
    \/ det[2] >= det[4]

\* C3 as stated: a region handed to the correction has
\* 0 <= x1 < x2 <= width and 0 <= y1 < y2 <= height, and a detection fully
\* outside the frame is never corrected.
C3_RegionWithinFrame ==
    pc = "draw" =>
        /\ 0 <= roi_box[1] /\ roi_box[1] < roi_box[3] /\ roi_box[3] <= FrameW
        /\ 0 <= roi_box[2] /\ roi_box[2] < roi_box[4] /\ roi_box[4] <= FrameH
        /\ ~FullyOutside(current_detections[idx], FrameW, FrameH)

\* C7 as stated: when the frame has been processed, a pixel that lies in the
\* roi of two or more regions holds what the correction of the last of them
\* wrote.
C7_OverlapHoldsLaterCorrection ==
    pc = "key" =>
        \A p \in Pixels :
            Cardinality(Covering(p)) >= 2 => frame[p] = last_write[p].value

\* C7 amended: the regions are corrected one at a time in list order and
\* each result is written back before the next region is handled: the latest
\* correction written to a pixel is that of the last handled region whose roi
\* holds it, it is the correction of what the frame held there just before
\* (the captured pixel when no earlier region touched it), and right after a
\* region's write-back every pixel of its roi holds that correction; the
\* outline and the label drawn afterwards may paint over it.
C7_LaterCorrectionWritesLast ==
    pc \in {"for", "draw", "key"} =>
        LET rois == [j \in 1..Handled |-> RoiOf(current_detections, j)]
            cover == [p \in Pixels |-> {j \in 1..Handled : p \in rois[j]}]
        IN  \A p \in Pixels :
                /\ last_write[p].by = IF cover[p] = {} THEN 0 ELSE MaxOf(cover[p])
                /\ (pc = "draw" /\ p \in rois[idx]) =>
                       /\ last_write[p].by = idx
                       /\ last_write[p].value = apply_correction_pixel(last_write[p].from)
                       /\ frame[p] = last_write[p].value
                /\ (last_write[p].by = 1) => last_write[p].from = captured[p]

\* C7 witness: the second region has just been written back; its roi and the
\* first region's differ and share a pixel, which holds the second
\* correction of the first region's correction of the captured pixel.
C7_Witness ==
    /\ pc = "draw"
    /\ idx = 2
    /\ RoiOf(current_detections, 1) # RoiOf(current_detections, 2)
    /\ \E p \in RoiOf(current_detections, 1) \cap RoiOf(current_detections, 2) :
          /\ last_write[p].by = 2
          /\ last_write[p].from = apply_correction_pixel(captured[p])
          /\ last_write[p].from # captured[p]
          /\ frame[p] = apply_correction_pixel(apply_correction_pixel(captured[p]))
          /\ frame[p] # last_write[p].from

\* C10: the detection list is at every moment exactly what the detector
\* returned at the latest refresh: the clamping and the correction of a
\* region change no stored tuple, nor the length or the order of the list.
C10_CacheIntact == current_detections = detected

\* C10 witness: on a frame without refresh a region was clamped to other
\* coordinates than the stored ones and corrected, and the stored tuple is
\* as detected.
C10_Witness ==
    /\ pc = "draw"
    /\ (frame_count - 1) % SKIP_FRAMES # 0
    /\ roi_box # <<current_detections[idx][1], current_detections[idx][2],
                   current_detections[idx][3], current_detections[idx][4]>>
    /\ current_detections[idx] = detected[idx]

(***************************************************************************)
(* ColorBlindnessApp.run: the application loop of colourblind_correction.  *)
(***************************************************************************)

\* The frames the camera delivers to run: images of one pixel, black, red or
\* green.
AppFrames ==
    {[shape |-> <<1, 1, 3>>, data |-> px] : px \in {<<0, 0, 0>>, <<255, 0, 0>>, <<0, 255, 0>>}}

\* What cv2.waitKey(1) & 0xFF can return: the keys of the handler in both
\* cases, another key, and no key.
Keys == {"q", "Q", "n", "N", "p", "P", "d", "D", "t", "T", "x", NoKey}
QuitKeys == {"q", "Q"}
ModeKeys == {"n", "N", "p", "P", "d", "D", "t", "T"}

\* The key handler passing on the case of the key: an upper-case key gives
\* the name in upper case.
key_mode_unfolded(k) ==
    LET name == CASE k \in {"n", "N"} -> normal
                  [] k \in {"p", "P"} -> protanopia
                  [] k \in {"d", "D"} -> deuteranopia
                  [] k \in {"t", "T"} -> tritanopia
    IN  IF k = LowerChar(k) THEN name ELSE Upper(name)

\* run, lines 293-300: the name the key handler gives to set_mode.
key_mode(k) ==
    CASE k \in {"n", "N"} -> normal
      [] k \in {"p", "P"} -> protanopia
      [] k \in {"d", "D"} -> deuteranopia
      [] k \in {"t", "T"} -> tritanopia

\* draw_ui, lines 212-213 and 227-228: the two black panels, each blended
\* into the frame at weight 0.6.  The second blend uses the overlay that
\* already holds the first panel, so a pixel of the first panel is blended
\* with black twice.  The glyphs of the texts are not drawn on the image
\* here; the mode text is kept beside it.
InPanel1(x, y) == x >= 10 /\ x <= 400 /\ y >= 10 /\ y <= 120
InPanel2(x, y) == x >= 10 /\ x <= 500 /\ y >= 130 /\ y <= 250
Blend(v) == (4 * v + 5) \div 10

draw_ui_image(img) ==
    LET w == img.shape[2]
        shade(i) ==
            LET px == (i - 1) \div 3
                x == px % w
                y == px \div w
            IN  IF InPanel1(x, y) THEN Blend(Blend(img.data[i]))
                ELSE IF InPanel2(x, y) THEN Blend(img.data[i])
                ELSE img.data[i]
    IN  [shape |-> img.shape, data |-> [i \in 1..Len(img.data) |-> shade(i)]]

\* draw_ui, line 217: f"Mode: {self.corrector.current_mode.upper()}".
mode_text(mode) == <<"M", "o", "d", "e", ":", " ">> \o Upper(mode)

\* run, line 267: self.cap.read() delivers a frame.
run_read ==
    /\ app_pc = "read"
    /\ frame_no < MaxAppFrames
    /\ \E f \in AppFrames : app_frame' = f
    /\ frame_no' = frame_no + 1
    /\ app_pc' = "process"
    /\ UNCHANGED <<processed_frame, display_frame, key, frame_mode, last_mode_key>>
    /\ UNCHANGED corrector_vars
    /\ UNCHANGED main_vars

\* run, lines 269-271: the read failed, the loop is left.
run_read_fails ==
    /\ app_pc = "read"
    /\ app_pc' = "closed"
    /\ printed' = [text |-> "Error: Failed to capture frame", arg |-> <<>>]
    /\ UNCHANGED <<app_frame, processed_frame, display_frame, key, frame_no,
                   frame_mode, last_mode_key>>
    /\ UNCHANGED <<current_mode, call, ret, mode_before, engine_ran, scenario>>
    /\ UNCHANGED main_vars

\* run, line 274: processed_frame = self.corrector.process_frame(frame); an
\* exception of process_frame leaves run.
run_process ==
    /\ app_pc = "process"
    /\ call' = [op |-> "process_frame", arg |-> app_frame, cb_type |-> <<>>]
    /\ ret' = process_frame_result(current_mode, app_frame)
    /\ engine_ran' = RunsEngine(current_mode)
    /\ printed' = NoPrint
    /\ mode_before' = current_mode
    /\ scenario' = ScenarioAfter(scenario, current_mode, app_frame, ret')
    /\ frame_mode' = current_mode
    /\ IF ret'.status = "ok"
       THEN /\ processed_frame' = ret'.value
            /\ app_pc' = "draw"
       ELSE /\ UNCHANGED processed_frame
            /\ app_pc' = "crashed"
    /\ UNCHANGED <<app_frame, display_frame, key, frame_no, last_mode_key>>
    /\ UNCHANGED current_mode
    /\ UNCHANGED main_vars

\* run, line 282: display_frame = self.draw_ui(processed_frame).
run_draw_ui ==
    /\ app_pc = "draw"
    /\ display_frame' = [image |-> draw_ui_image(processed_frame),
                         mode_text |-> mode_text(current_mode)]
    /\ app_pc' = "show"
    /\ UNCHANGED <<app_frame, processed_frame, key, frame_no, frame_mode, last_mode_key>>
    /\ UNCHANGED corrector_vars
    /\ UNCHANGED main_vars

\* run, line 285: cv2.imshow shows display_frame.
run_show ==
    /\ app_pc = "show"
    /\ app_pc' = "key"
    /\ UNCHANGED <<app_frame, processed_frame, display_frame, key, frame_no,
                   frame_mode, last_mode_key>>
    /\ UNCHANGED corrector_vars
    /\ UNCHANGED main_vars

\* run, lines 288-300: the key read after the display, and its handler.
run_key(k) ==
    /\ app_pc = "key"
    /\ key' = k
    /\ IF k \in QuitKeys
       THEN /\ app_pc' = "closed"
            /\ printed' = [text |-> "Exiting...", arg |-> <<>>]
            /\ UNCHANGED <<current_mode, call, ret, mode_before, engine_ran>>
            /\ UNCHANGED last_mode_key
       ELSE IF k \in ModeKeys
       THEN /\ app_pc' = "read"
            /\ current_mode' = ModeAfterSet(current_mode, key_mode(k))
            /\ printed' = IF IsValidMode(key_mode(k))
                          THEN [text |-> "Mode changed to: ", arg |-> Upper(key_mode(k))]
                          ELSE [text |-> "Invalid mode: ", arg |-> key_mode(k)]
            /\ call' = [op |-> "set_mode", arg |-> key_mode(k), cb_type |-> <<>>]
            /\ ret' = Ok("None")
            /\ mode_before' = current_mode
            /\ engine_ran' = FALSE
            /\ last_mode_key' = k
       ELSE /\ app_pc' = "read"
            /\ UNCHANGED corrector_vars
            /\ UNCHANGED last_mode_key
    /\ UNCHANGED scenario
    /\ UNCHANGED <<app_frame, processed_frame, display_frame, frame_no, frame_mode>>
    /\ UNCHANGED main_vars

NextApp ==
    \/ run_read
    \/ run_read_fails
    \/ run_process
    \/ run_draw_ui
    \/ run_show
    \/ \E k \in Keys : run_key(k)

SpecApp == Init /\ [][NextApp]_vars

(***************************************************************************)
(* Properties of the application loop (under SpecApp).                     *)
(***************************************************************************)

\* The mode a mode key names: the one of the four whose first letter is the
\* key's letter.
ModeNamedBy(k) ==
    CHOOSE m \in {normal, protanopia, deuteranopia, tritanopia} : m[1] = LowerChar(k)

\* The mode asked for by the latest mode key so far, normal before any.
RequestedMode == IF last_mode_key = NoKey THEN normal ELSE ModeNamedBy(last_mode_key)

\* While a frame is between its processing and the key read: it was processed
\* in the requested mode, which is still the active one and the one shown.
FrameUnderRequestedMode ==
    app_pc \in {"draw", "show", "key"} =>
        /\ frame_mode = RequestedMode
        /\ current_mode = frame_mode
        /\ processed_frame = process_frame_result(RequestedMode, app_frame).value
        /\ (frame_no = 1) =>
              /\ frame_mode = normal
              /\ processed_frame = app_frame
        /\ (app_pc \in {"show", "key"}) =>
              /\ display_frame.mode_text = mode_text(frame_mode)
              /\ display_frame.image = draw_ui_image(processed_frame)

\* The active mode changes only in the step that handles a key, which comes
\* after the display of the frame and before the next read.
ModeChangesAtKeyOnly ==
    (current_mode' # current_mode) =>
        /\ app_pc = "key"
        /\ app_pc' = "read"
        /\ key' \in ModeKeys
        /\ display_frame.mode_text = mode_text(current_mode)

\* C11: in the application loop the active mode is fixed while a frame is
\* processed and displayed: a mode change asked for by a key is applied only
\* after the frame was processed and shown, every frame is corrected under
\* the mode of the latest mode key read before it, and the first frame is
\* processed in the initial mode normal.
C11_ModeFixedPerFrame ==
    /\ []FrameUnderRequestedMode
    /\ [][ModeChangesAtKeyOnly]_vars

\* C11 witness: a later frame than the first was processed and shown in mode
\* protanopia, asked for by the key "P" after an earlier frame; the corrected
\* frame differs from the captured one.
C11_Witness ==
    /\ app_pc = "key"
    /\ frame_no > 1
    /\ last_mode_key = "P"
    /\ frame_mode = protanopia
    /\ current_mode = protanopia
    /\ processed_frame # app_frame
    /\ display_frame.mode_text = mode_text(protanopia)

====
